---- MODULE Spec2Model ----
(***************************************************************************)
(* Model of eip-712-derive: the type-graph walk and canonical type string  *)
(* (src/src/type_hash.rs), the memoized type hash behind the process-wide  *)
(* RwLock cache, the data encoder and digest composer and the signer       *)
(* (src/src/lib.rs).                                                       *)
(*                                                                         *)
(* A str is a sequence of byte codes.  A Bytes32 is a sequence of          *)
(* integers: the 32 bytes of an atomic value, or, for a keccak digest,     *)
(* the bracketed pre-image (-1, pre-image bytes, -2), which makes keccak   *)
(* an injective abstract function whose values are all comparable.         *)
(***************************************************************************)
EXTENDS Integers, Sequences, FiniteSets, TLC

VARIABLES
    decl,       \* the struct declarations in scope: TypeId -> <<[name, type]>>
    root,       \* T of the encode_type::<T> call being walked
    builder,    \* the TypeHashBuilder of that call, with the visit_members frames
    phase,      \* where that encode_type call is
    out,        \* the String it returned
    hist,       \* per TypeId: how often struct_type registered it; steps taken
    mode,       \* which callers run: "walk", "seq" (one thread) or "conc"
    cache,      \* CACHE: the HashMap<TypeId, Bytes32> inside the RwLock
    lock,       \* the RwLock: the threads holding a read guard, the write guard
    thr,        \* per thread: the call it is in, as a stack of frames
    inserts     \* per TypeId: how many CACHE inserts were made

walkVars == <<decl, root, builder, phase, out, hist>>
callVars == <<mode, cache, lock, thr, inserts>>
vars == <<decl, root, builder, phase, out, hist, mode, cache, lock, thr, inserts>>

(***************************************************************************)
(* Bounds                                                                  *)
(***************************************************************************)
\* Members declared, in total, by the struct types of one generated schema.
MaxMembers == 3
\* Threads calling into the crate concurrently.
NumThreads == 2
\* Calls the concurrent threads make, in total.
MaxCalls == 3

(***************************************************************************)
(* Strings                                                                 *)
(***************************************************************************)
\* Ord for str (the key order of BTreeMap<&'static str, _>): byte-wise
\* lexicographic, a proper prefix sorting first.
RECURSIVE StrLess(_, _)
StrLessByLength(a, b) ==
    \/ Len(a) < Len(b)
    \/ Len(a) = Len(b) /\ \E k \in 1..Len(a) :
          /\ a[k] < b[k]
          /\ \A j \in 1..(k - 1) : a[j] = b[j]

StrLess(a, b) ==
    IF b = <<>> THEN FALSE
    ELSE IF a = <<>> THEN TRUE
    ELSE IF Head(a) # Head(b) THEN Head(a) < Head(b)
    ELSE StrLess(Tail(a), Tail(b))

\* The keys of a map in ascending order (BTreeMap iteration order).
RECURSIVE SortedKeys(_)
SortedKeys(keys) ==
    IF keys = {} THEN <<>>
    ELSE LET least == CHOOSE k \in keys : \A o \in keys \ {k} : StrLess(k, o)
         IN  <<least>> \o SortedKeys(keys \ {least})

(***************************************************************************)
(* Types: TypeId identifies a concrete Rust type, TypeName is its          *)
(* TYPE_NAME.  Two TypeIds may share a TYPE_NAME.                          *)
(***************************************************************************)
AtomicTypes  == {"Address", "U256"}
DynamicTypes == {"String"}
LeafTypes    == AtomicTypes \cup DynamicTypes

\* The struct types of the repository's tests, and caller declarations that
\* reuse a type name.
DeclaredStructs ==
    {"Mail", "Person", "DomainStruct", "Transaction", "TxPerson", "Asset",
     "Holder", "Note", "StrStruct", "Wrap", "Ledger"}

\* Struct types whose members the walk specification generates.
GenStructs == {"GM", "GB", "GA", "GAB", "GA2"}

StructTypes == DeclaredStructs \cup GenStructs

TypeName(T) ==
    CASE T = "Address"      -> <<97,100,100,114,101,115,115>>          \* address
      [] T = "U256"         -> <<117,105,110,116,50,53,54>>            \* uint256
      [] T = "String"       -> <<115,116,114,105,110,103>>             \* string
      [] T = "Mail"         -> <<77,97,105,108>>                       \* Mail
      [] T = "Person"       -> <<80,101,114,115,111,110>>              \* Person
      [] T = "TxPerson"     -> <<80,101,114,115,111,110>>              \* Person
      [] T = "DomainStruct" -> <<69,73,80,55,49,50,68,111,109,97,105,110>>
      [] T = "Transaction"  -> <<84,114,97,110,115,97,99,116,105,111,110>>
      [] T = "Asset"        -> <<65,115,115,101,116>>                  \* Asset
      [] T = "Holder"       -> <<72,111,108,100,101,114>>              \* Holder
      [] T = "Note"         -> <<78,111,116,101>>                      \* Note
      [] T = "StrStruct"    -> <<115,116,114,105,110,103>>             \* string
      [] T = "Wrap"         -> <<87,114,97,112>>                       \* Wrap
      [] T = "Ledger"       -> <<76,101,100,103,101,114>>              \* Ledger
      [] T = "GM"           -> <<77>>                                  \* M
      [] T = "GB"           -> <<66>>                                  \* B
      [] T = "GA"           -> <<65>>                                  \* A
      [] T = "GAB"          -> <<65,66>>                               \* AB
      [] T = "GA2"          -> <<65>>                                  \* A

Member(n, t) == [name |-> n, type |-> t]

\* visit_members of each declared struct type: its visitor.visit calls, in order.
DeclaredMembers(T) ==
    CASE T = "Person" ->
           << Member(<<110,97,109,101>>, "String"),                    \* name
              Member(<<119,97,108,108,101,116>>, "Address") >>         \* wallet
      [] T = "Mail" ->
           << Member(<<102,114,111,109>>, "Person"),                   \* from
              Member(<<116,111>>, "Person"),                           \* to
              Member(<<99,111,110,116,101,110,116,115>>, "String") >>  \* contents
      [] T = "DomainStruct" ->
           << Member(<<110,97,109,101>>, "String"),                    \* name
              Member(<<118,101,114,115,105,111,110>>, "String"),       \* version
              Member(<<99,104,97,105,110,73,100>>, "U256"),            \* chainId
              Member(<<118,101,114,105,102,121,105,110,103,67,111,110,116,114,97,99,116>>,
                     "Address") >>                                     \* verifyingContract
      [] T = "TxPerson" ->
           << Member(<<119,97,108,108,101,116>>, "Address"),           \* wallet
              Member(<<110,97,109,101>>, "String") >>                  \* name
      [] T = "Asset" ->
           << Member(<<116,111,107,101,110>>, "Address"),              \* token
              Member(<<97,109,111,117,110,116>>, "U256") >>            \* amount
      [] T = "Transaction" ->
           << Member(<<102,114,111,109>>, "TxPerson"),                 \* from
              Member(<<116,111>>, "TxPerson"),                         \* to
              Member(<<116,120>>, "Asset") >>                          \* tx
      [] T = "Holder" ->
           << Member(<<102>>, "String") >>                             \* f
      [] T = "Note" ->
           << Member(<<116,111>>, "TxPerson") >>                       \* to
      [] T = "StrStruct" ->
           << Member(<<120>>, "Holder") >>                             \* x
      [] T = "Wrap" ->
           << Member(<<120>>, "Holder"),                               \* x
              Member(<<115>>, "StrStruct") >>                          \* s
      [] T = "Ledger" ->
           << Member(<<97>>, "Person"),                                \* a
              Member(<<98>>, "TxPerson") >>                            \* b

Declared == [T \in DeclaredStructs |-> DeclaredMembers(T)]

(***************************************************************************)
(* TypeHashBuilder (type_hash.rs).  An Option is a sequence of length 0    *)
(* or 1.  frames are the active visit_members calls, innermost last: the   *)
(* type being traversed, the name its StructTypeBuilder holds, and the     *)
(* index of its next visitor.visit call.                                   *)
(***************************************************************************)
EncodedType(T) == [type_id |-> T, name |-> TypeName(T), members |-> <<>>]

\* BTreeMap::new()
EmptyMap == [k \in {} |-> k]

NewBuilder == [outer |-> <<>>, inner |-> EmptyMap, frames |-> <<>>, fault |-> "none"]

Fault(b, what) == [b EXCEPT !.fault = what]

\* A lookup that finds the root only: a referenced type is never found again.
SlotOfOuterOnly(b, name) ==
    IF Len(b.outer) = 1 /\ b.outer[1].name = name THEN "outer" ELSE "none"

\* Which slot get_encoded_type_mut hands out for a name.

SlotOf(b, name) ==
    IF Len(b.outer) = 1 /\ b.outer[1].name = name THEN "outer"
    ELSE IF name \in DOMAIN b.inner THEN "inner"
    ELSE "none"

get_encoded_type_mut(b, name) ==
    CASE SlotOf(b, name) = "outer" -> b.outer
      [] SlotOf(b, name) = "inner" -> <<b.inner[name]>>
      [] OTHER -> <<>>

\* set.members.push(member) through the reference get_encoded_type_mut gave.
PushMember(b, own_type, member) ==
    IF SlotOf(b, own_type) = "outer"
    THEN [b EXCEPT !.outer[1].members = Append(@, member)]
    ELSE [b EXCEPT !.inner[own_type].members = Append(@, member)]

\* BTreeMap::insert: a later insert under the same key replaces the entry.
MapInsert(m, k, v) == [x \in DOMAIN m \cup {k} |-> IF x = k THEN v ELSE m[x]]

\* struct_type::<T> without the outer slot: every type goes to the sorted map.
struct_type_all_inner(b, T) ==
    IF Len(get_encoded_type_mut(b, TypeName(T))) = 1
    THEN Fault(b, "already_registered")
    ELSE [b EXCEPT !.inner = MapInsert(@, TypeName(T), EncodedType(T)),
                   !.frames = Append(@, [tid |-> T, own_type |-> TypeName(T), next |-> 1])]

\* struct_type::<T>, followed by the start of T's visit_members on the
\* StructTypeBuilder it returns.
struct_type(b, T) ==
    IF Len(get_encoded_type_mut(b, TypeName(T))) = 1
    THEN Fault(b, "already_registered")
    ELSE LET marked == IF b.outer = <<>>
                       THEN [b EXCEPT !.outer = <<EncodedType(T)>>]
                       ELSE [b EXCEPT !.inner = MapInsert(@, TypeName(T), EncodedType(T))]
         IN  [marked EXCEPT !.frames =
                  Append(@, [tid |-> T, own_type |-> TypeName(T), next |-> 1])]

\* MemberType::add_members: a no-op for atomic and dynamic types.
add_members(b, T) == IF T \in LeafTypes THEN b ELSE struct_type(b, T)

\* visit without the type_id assertion: a registered name is taken as known.
visit_unchecked(b, own_type, member) ==
    IF SlotOf(b, own_type) = "none" THEN Fault(b, "unwrap")
    ELSE LET pushed == PushMember(b, own_type,
                           [type |-> TypeName(member.type), name |-> member.name])
         IN  IF Len(get_encoded_type_mut(pushed, TypeName(member.type))) = 1
             THEN pushed
             ELSE add_members(pushed, member.type)

\* StructTypeBuilder::visit for a member of type member.type.
visit(b, own_type, member) ==
    IF SlotOf(b, own_type) = "none" THEN Fault(b, "unwrap")
    ELSE LET pushed == PushMember(b, own_type,
                           [type |-> TypeName(member.type), name |-> member.name])
             found  == get_encoded_type_mut(pushed, TypeName(member.type))
         IN  IF Len(found) = 1
             THEN IF found[1].type_id = member.type
                  THEN pushed
                  ELSE Fault(pushed, "duplicate_name")
             ELSE add_members(pushed, member.type)

Top(b) == b.frames[Len(b.frames)]

\* One step of the walk: the innermost visit_members makes its next
\* visitor.visit call, or returns when it has none left.
WalkStep(d, b) ==
    LET top == Top(b)
        n   == Len(b.frames)
    IN  IF top.next > Len(d[top.tid])
        THEN [b EXCEPT !.frames = SubSeq(@, 1, n - 1)]
        ELSE visit([b EXCEPT !.frames[n].next = @ + 1],
                   top.own_type, d[top.tid][top.next])

\* Member::write
MemberWrite(m) == m.type \o <<32>> \o m.name

RECURSIVE JoinMembers(_)
JoinMembers(ms) ==
    IF ms = <<>> THEN <<>>
    ELSE IF Len(ms) = 1 THEN MemberWrite(ms[1])
    ELSE MemberWrite(ms[1]) \o <<44>> \o JoinMembers(Tail(ms))

\* encode_type::add_type
add_type(t) == t.name \o <<40>> \o JoinMembers(t.members) \o <<41>>

RECURSIVE AddTypes(_, _)
AddTypes(inner, keys) ==
    IF keys = <<>> THEN <<>>
    ELSE add_type(inner[Head(keys)]) \o AddTypes(inner, Tail(keys))

\* The buffer encode_type returns once the walk is over.
RenderType(b) == add_type(b.outer[1]) \o AddTypes(b.inner, SortedKeys(DOMAIN b.inner))

\* encode_type::<T>, up to the return of value.add_members.
BeginWalk(T) == add_members(NewBuilder, T)

RECURSIVE RunWalk(_, _)
RunWalk(d, b) ==
    IF b.fault # "none" \/ b.frames = <<>> THEN b ELSE RunWalk(d, WalkStep(d, b))

\* encode_type::<T> as a function: the string, or the panic.
encode_type(d, T) ==
    LET b == RunWalk(d, BeginWalk(T))
    IN  IF b.fault # "none" THEN [ok |-> FALSE, fault |-> b.fault, str |-> <<>>]
        ELSE IF b.outer[1].name # TypeName(T)
             THEN [ok |-> FALSE, fault |-> "outer_name", str |-> <<>>]
             ELSE [ok |-> TRUE, fault |-> "none", str |-> RenderType(b)]

(***************************************************************************)
(* Values.  A value carries its concrete type; an atomic or dynamic value  *)
(* its bytes, a struct value its member values in declaration order.       *)
(***************************************************************************)
Leaf(T, bytes)     == [type |-> T, bytes |-> bytes, fields |-> <<>>]
StructOf(T, fields) == [type |-> T, bytes |-> <<>>, fields |-> fields]

Text(bytes) == Leaf("String", bytes)
WordOf(n)   == Leaf("U256", [i \in 1..32 |-> IF i = 32 THEN n ELSE 0])

\* The values of tests/email.rs
Cow == StructOf("Person",
         << Text(<<67,111,119>>),
            Leaf("Address", <<205,42,61,159,147,142,19,205,148,126,
                              192,90,188,127,231,52,223,141,216,38>>) >>)
Bob == StructOf("Person",
         << Text(<<66,111,98>>), Leaf("Address", [i \in 1..20 |-> 187]) >>)
MailValue == StructOf("Mail", << Cow, Bob, Text(<<72,101,108,108,111,44,32,66,111,98,33>>) >>)
DomainValue ==
    StructOf("DomainStruct",
         << Text(<<69,116,104,101,114,32,77,97,105,108>>), Text(<<49>>),
            WordOf(1), Leaf("Address", [i \in 1..20 |-> 204]) >>)

\* Values of the caller declarations that reuse a type name.
TxCow == StructOf("TxPerson", << Leaf("Address", [i \in 1..20 |-> 187]), Text(<<67,111,119>>) >>)
LedgerValue == StructOf("Ledger", << Cow, TxCow >>)
HolderValue == StructOf("Holder", << Text(<<104,105>>) >>)
NoteValue == StructOf("Note", << TxCow >>)
WrapValue ==
    StructOf("Wrap", << HolderValue, StructOf("StrStruct", << HolderValue >>) >>)

(***************************************************************************)
(* Bytes                                                                   *)
(***************************************************************************)
\* prelude::keccak, as an injective function: the digest is its pre-image
\* between two marks no byte equals.
Keccak(bytes) == <<-1>> \o bytes \o <<-2>>

RECURSIVE Flatten(_)
Flatten(words) == IF words = <<>> THEN <<>> ELSE Head(words) \o Flatten(Tail(words))

\* impl_bytes: the value right-aligned in 32 bytes, zeros before it.
PadLeft(bytes) ==
    [i \in 1..32 |-> IF i <= 32 - Len(bytes) THEN 0 ELSE bytes[i - (32 - Len(bytes))]]

\* MemberType::encode_data of an atomic or dynamic value.
LeafEncode(v) ==
    IF v.type = "String" THEN Keccak(v.bytes) ELSE PadLeft(v.bytes)

\* A byte array as runs: n bytes holding w (a literal, or one Bytes32).
Run(n, w) == [n |-> n, w |-> w]

RECURSIVE ByteLen(_)
ByteLen(runs) == IF runs = <<>> THEN 0 ELSE Head(runs).n + ByteLen(Tail(runs))

RECURSIVE RunBytes(_)
RunBytes(runs) == IF runs = <<>> THEN <<>> ELSE Head(runs).w \o RunBytes(Tail(runs))

\* A write through a cursor that starts over at the front of the array.
CursorWriteAtStart(runs, n, w) == << Run(n, w) >>

\* Cursor::write on the 66-byte array of encode: nothing is written past its end.
CursorWrite(runs, n, w) ==
    IF ByteLen(runs) + n <= 66 THEN Append(runs, Run(n, w)) ELSE runs

\* The array encode returns: the bytes the cursor wrote, the rest still zero.
ArrayOf(runs) ==
    IF ByteLen(runs) < 66
    THEN Append(runs, Run(66 - ByteLen(runs), [i \in 1..(66 - ByteLen(runs)) |-> 0]))
    ELSE runs

(***************************************************************************)
(* Threads.  A frame is a call in progress: fn, where it is (pc), its      *)
(* argument, and its buffer.  What a call returns is a Ret record.         *)
(***************************************************************************)
Threads == 1..NumThreads

Ret(kind, word, words, runs, recid) ==
    [kind |-> kind, word |-> word, words |-> words, runs |-> runs, recid |-> recid]

NoRet        == Ret("none", <<>>, <<>>, <<>>, 0)
Hash(w)      == Ret("hash", w, <<>>, <<>>, 0)
Data(ws)     == Ret("data", <<>>, ws, <<>>, 0)
Array(rs)    == Ret("array", <<>>, <<>>, rs, 0)
Signed(w, r) == Ret("signature", w, <<>>, <<>>, r)
Failed(e)    == Ret(e, <<>>, <<>>, <<>>, 0)

NoValue == Leaf("none", <<>>)

Frame(fn, pc, val, buf) == [fn |-> fn, pc |-> pc, val |-> val, buf |-> buf, idx |-> 0]

\* DomainSeparator::from_bytes of 32 zero bytes
ZeroSeparator == [i \in 1..32 |-> 0]

IdleThread ==
    [status |-> "idle", frames |-> <<>>, op |-> "none", arg |-> NoValue,
     dom |-> ZeroSeparator, key |-> "none", result |-> NoRet, fault |-> "none",
     enc |-> 0, ins |-> {}, secret |-> "none", th |-> <<>>, calls |-> 0]

\* The frames a call of op pushes before it first reaches CACHE.read():
\* encode_data calls type_hash first, hash_struct calls encode_data, encode
\* writes the prefix and the separator and calls hash_struct, and so on.
TypeHashFrame(v) == Frame("type_hash", "read", v, <<>>)

DataFrames(fn, v) == << Frame(fn, "type_hash", v, <<>>), TypeHashFrame(v) >>

EncodeFrames(dom, v) ==
    << Frame("encode", "hash_struct", v,
             CursorWrite(CursorWrite(<<>>, 2, <<25, 1>>), 32, dom)) >>
    \o DataFrames("hash_struct", v)

Enter(op, dom, v) ==
    CASE op = "type_hash"   -> << TypeHashFrame(v) >>
      [] op = "encode_data" -> DataFrames("encode_data", v)
      [] op = "hash_struct" -> DataFrames("hash_struct", v)
      [] op = "new"         -> << Frame("new", "hash_struct", v, <<>>) >>
                               \o DataFrames("hash_struct", v)
      [] op = "encode"      -> EncodeFrames(dom, v)
      [] op = "sign_hash"   -> << Frame("sign_hash", "encode", v, <<>>) >>
                               \o EncodeFrames(dom, v)
      [] op = "sign_typed"  -> << Frame("sign_typed", "sign_hash", v, <<>>),
                                  Frame("sign_hash", "encode", v, <<>>) >>
                               \o EncodeFrames(dom, v)

IsDataFrame(f) == f.fn \in {"encode_data", "hash_struct"}

\* The frame encoding the value the call was made on.
RootDataFrame(s) ==
    LET at == { i \in 1..Len(s.frames) : IsDataFrame(s.frames[i]) }
    IN  IF at = {} THEN 0 ELSE CHOOSE i \in at : \A j \in at : i <= j

Pop(s) == [s EXCEPT !.frames = SubSeq(@, 1, Len(@) - 1)]

\* EncodeVisitor::visit of a nested struct that appends the member's raw
\* encode_data instead of its hash.
MemberFramesRaw(v) == DataFrames("encode_data", v)

\* EncodeVisitor::visit of a struct member: value.encode_data() is hash_struct.
MemberFrames(v) == DataFrames("hash_struct", v)

\* Deliver(s, v): the innermost frame has returned v (and is popped); its
\* caller goes on with v.  VisitMembers(s): s.visit_members(&mut visitor) of
\* encode_data goes on from member idx.  Both run the thread up to its next
\* CACHE.read() or its handling of the key, or to the end of the call.
RECURSIVE Deliver(_, _), VisitMembers(_)
VisitMembers(s) ==
    LET f == Top(s)
        n == Len(s.frames)
    IN  IF f.idx > Len(f.val.fields)
        THEN Deliver(Pop(s), IF f.fn = "hash_struct"
                             THEN Hash(Keccak(Flatten(f.buf)))
                             ELSE Data(f.buf))
        ELSE LET v == f.val.fields[f.idx]
             IN  IF v.type \in LeafTypes
                 THEN VisitMembers(
                        [s EXCEPT !.frames[n].buf = Append(@, LeafEncode(v)),
                                  !.frames[n].idx = @ + 1,
                                  !.enc = IF n = RootDataFrame(s) THEN @ + 1 ELSE @])
                 ELSE [s EXCEPT !.frames = [@ EXCEPT ![n].pc = "member"]
                                           \o MemberFrames(v)]

Deliver(s, v) ==
    IF s.frames = <<>> THEN [s EXCEPT !.status = "returned", !.result = v]
    ELSE LET f == Top(s)
             n == Len(s.frames)
         IN  CASE IsDataFrame(f) /\ f.pc = "type_hash" ->
                    VisitMembers([s EXCEPT !.frames[n].buf = Append(@, v.word),
                                           !.frames[n].pc = "fields",
                                           !.frames[n].idx = 1])
               [] IsDataFrame(f) /\ f.pc = "member" ->
                    VisitMembers(
                      [s EXCEPT !.frames[n].buf = @ \o (IF v.kind = "data" THEN v.words
                                                                          ELSE <<v.word>>),
                                !.frames[n].pc = "fields",
                                !.frames[n].idx = @ + 1,
                                !.enc = IF n = RootDataFrame(s) THEN @ + 1 ELSE @])
               [] f.fn = "new" ->
                    Deliver([Pop(s) EXCEPT !.dom = v.word], Hash(v.word))
               [] f.fn = "encode" ->
                    Deliver(Pop(s), Array(ArrayOf(CursorWrite(f.buf, 32, v.word))))
               [] f.fn = "sign_hash" ->
                    Deliver(Pop(s), Hash(Keccak(RunBytes(v.runs))))
               [] f.fn = "sign_typed" ->
                    [s EXCEPT !.frames[n].pc = "parse_key",
                              !.frames[n].buf = <<v.word>>]

Return(s, v) == Deliver(Pop(s), v)

\* A panic unwinds the whole call.
Panic(s, what) == [s EXCEPT !.status = "panicked", !.frames = <<>>, !.fault = what]

\* The guards a thread holds are dropped when it returns or unwinds; a write
\* guard dropped by a panic poisons the lock.
Unlocked(l, t, panicking) ==
    [readers  |-> l.readers \ {t},
     writer   |-> l.writer \ {t},
     poisoned |-> l.poisoned \/ (panicking /\ t \in l.writer)]

\* keccak(encode_type) of each declared struct type, or the panic.
TypeStrings == [T \in DeclaredStructs |-> encode_type(Declared, T)]

(***************************************************************************)
(* The calls threads make.  In mode "seq" one thread makes every call of   *)
(* the public interface, one after the other; in mode "conc" NumThreads    *)
(* threads make calls concurrently.                                        *)
(***************************************************************************)
Active == IF mode = "seq" THEN {1} ELSE IF mode = "conc" THEN Threads ELSE {}

Call(op, v) == [op |-> op, arg |-> v]

SeqMenu ==
    { Call(op, v) : op \in {"type_hash", "encode_data", "new"},
                    v \in {Cow, Bob, MailValue, DomainValue, LedgerValue, WrapValue,
                           NoteValue, TxCow} }
    \cup
    { Call(op, v) : op \in {"encode", "sign_hash", "sign_typed"},
                    v \in {Cow, MailValue, WrapValue} }

ConcMenu ==
    { Call("type_hash", v) : v \in {Cow, LedgerValue} }
    \cup { Call("encode_data", NoteValue) }

Menu == IF mode = "seq" THEN SeqMenu ELSE ConcMenu

Keys == {"zero", "valid", "overflow"}

Running(t) == thr[t].status = "run"
At(t, fn, pc) == Running(t) /\ Top(thr[t]).fn = fn /\ Top(thr[t]).pc = pc

NoLock == [readers |-> {}, writer |-> {}, poisoned |-> FALSE]

InitCalls(m) ==
    /\ mode = m
    /\ cache = EmptyMap
    /\ lock = NoLock
    /\ thr = [t \in Threads |-> IdleThread]
    /\ inserts = [T \in StructTypes |-> 0]

\* The calls the threads have made so far.
RECURSIVE CallsOf(_)
CallsOf(ts) ==
    IF ts = {} THEN 0
    ELSE LET t == CHOOSE x \in ts : TRUE IN thr[t].calls + CallsOf(ts \ {t})

\* A thread that is in no call makes one.  The separator it passes is the
\* one it holds: from_bytes of zeros, or the last DomainSeparator::new.  The
\* one thread of mode "seq" calls without end; the concurrent threads make
\* MaxCalls calls between them.
StartCall(t) ==
    /\ t \in Active
    /\ ~Running(t)
    /\ mode = "conc" => CallsOf(Threads) < MaxCalls
    /\ \E c \in Menu :
         thr' = [thr EXCEPT ![t] =
                   [IdleThread EXCEPT !.status = "run", !.op = c.op, !.arg = c.arg,
                                      !.dom = thr[t].dom,
                                      !.calls = IF mode = "conc" THEN thr[t].calls + 1
                                                ELSE 0,
                                      !.frames = Enter(c.op, thr[t].dom, c.arg)]]
    /\ UNCHANGED <<mode, cache, lock, inserts>>

\* type_hash: let read = CACHE.read().unwrap();
TypeHashRead(t) ==
    /\ At(t, "type_hash", "read")
    /\ lock.writer = {}
    /\ IF lock.poisoned
       THEN /\ thr' = [thr EXCEPT ![t] = Panic(@, "poisoned")]
            /\ lock' = lock
       ELSE /\ thr' = [thr EXCEPT ![t].frames[Len(thr[t].frames)].pc = "lookup"]
            /\ lock' = [lock EXCEPT !.readers = @ \cup {t}]
    /\ UNCHANGED <<mode, cache, inserts>>

TypeHashLog(s, how, w) ==
    [s EXCEPT !.th = << [type |-> Top(s).val.type, inst |-> Top(s).val,
                         value |-> w, how |-> how] >>]

\* A miss that keeps the read guard while it computes and asks for the write lock.
AfterMissKeepGuard(l, t) == l

\* A miss that trades the read guard for the write guard before it computes.
AfterMissTakesWrite(l, t) == [l EXCEPT !.readers = @ \ {t}, !.writer = @ \cup {t}]

\* The guards held after the lookup missed: drop(read).
AfterMiss(l, t) == Unlocked(l, t, FALSE)

\* A cache keyed by TYPE_NAME: types of one name share an entry.
CacheKeyByName(T) == TypeName(T)

\* The key of the cache: TypeId::of::<T>()
CacheKey(T) == T

\* A lookup that never finds an entry.
CachedNever(c, T) == FALSE

\* read.get(&TypeId::of::<T>()) is Some
Cached(c, T) == CacheKey(T) \in DOMAIN c

\* type_hash: if let Some(cached) = read.get(..) { return *cached; } drop(read);
TypeHashLookup(t) ==
    /\ At(t, "type_hash", "lookup")
    /\ LET T == Top(thr[t]).val.type
       IN  IF Cached(cache, T)
           THEN /\ thr' = [thr EXCEPT ![t] =
                             Return(TypeHashLog(@, "hit", cache[CacheKey(T)]),
                                    Hash(cache[CacheKey(T)]))]
                /\ lock' = Unlocked(lock, t, FALSE)
           ELSE /\ thr' = [thr EXCEPT ![t].frames[Len(thr[t].frames)].pc = "compute"]
                /\ lock' = AfterMiss(lock, t)
    /\ UNCHANGED <<mode, cache, inserts>>

\* type_hash: let encoded = encode_type(value); let result = keccak(..);
TypeHashCompute(t) ==
    /\ At(t, "type_hash", "compute")
    /\ LET enc == TypeStrings[Top(thr[t]).val.type]
           n   == Len(thr[t].frames)
       IN  IF enc.ok
           THEN /\ thr' = [thr EXCEPT ![t].frames[n].pc = "write",
                                      ![t].frames[n].buf = <<Keccak(enc.str)>>]
                /\ lock' = lock
           ELSE /\ thr' = [thr EXCEPT ![t] = Panic(@, enc.fault)]
                /\ lock' = Unlocked(lock, t, TRUE)
    /\ UNCHANGED <<mode, cache, inserts>>

\* type_hash: let mut write = CACHE.write().unwrap();
TypeHashWrite(t) ==
    /\ At(t, "type_hash", "write")
    /\ lock.writer = {}
    /\ lock.readers = {}
    /\ IF lock.poisoned
       THEN /\ thr' = [thr EXCEPT ![t] = Panic(@, "poisoned")]
            /\ lock' = lock
       ELSE /\ thr' = [thr EXCEPT ![t].frames[Len(thr[t].frames)].pc = "insert"]
            /\ lock' = [lock EXCEPT !.writer = {t}]
    /\ UNCHANGED <<mode, cache, inserts>>

\* An insert that starts the map over: the other entries are lost.
MapPutAlone(m, k, v) == [x \in {k} |-> v]

\* HashMap::insert
MapPut(m, k, v) == [x \in DOMAIN m \cup {k} |-> IF x = k THEN v ELSE m[x]]

\* type_hash: write.insert(TypeId::of::<T>(), result); result
TypeHashInsert(t) ==
    /\ At(t, "type_hash", "insert")
    /\ LET T == Top(thr[t]).val.type
           w == Top(thr[t]).buf[1]
       IN  /\ cache' = MapPut(cache, CacheKey(T), w)
           /\ inserts' = [inserts EXCEPT ![T] = @ + 1]
           /\ thr' = [thr EXCEPT ![t] =
                        Return([TypeHashLog(@, "miss", w) EXCEPT !.ins = @ \cup {T}],
                               Hash(w))]
    /\ lock' = Unlocked(lock, t, FALSE)
    /\ mode' = mode

\* secp256k1::sign, as a function of the digest (one valid key is modelled)
Signature(message) == <<-3>> \o message \o <<-4>>

\* sign_typed: the closure run by clear_stack_on_return.  SecretKey::parse
\* copies the scalar and rejects zero and values not below the curve order.
SignParseKey(t) ==
    /\ At(t, "sign_typed", "parse_key")
    /\ \E key \in Keys, recid \in 0..3 :
         thr' = [thr EXCEPT ![t].frames[Len(thr[t].frames)].pc = "clear",
                            ![t].key = key,
                            ![t].secret = "live",
                            ![t].result =
                                IF key = "valid"
                                THEN Signed(Signature(Top(thr[t]).buf[1]), recid)
                                ELSE Failed("InvalidSecretKey")]
    /\ UNCHANGED <<mode, cache, lock, inserts>>

\* A cleanup that a closure leaving through `?` skips.
ClearedOnSuccessOnly(s) ==
    IF s.result.kind = "signature" THEN [s EXCEPT !.secret = "erased"] ELSE s

\* clear_stack_on_return: the stack the closure used is zeroed once it returned.
Cleared(s) == [s EXCEPT !.secret = "erased"]

SignClear(t) ==
    /\ At(t, "sign_typed", "clear")
    /\ thr' = [thr EXCEPT ![t] =
                 [Cleared(@) EXCEPT !.frames[Len(thr[t].frames)].pc = "finish"]]
    /\ UNCHANGED <<mode, cache, lock, inserts>>

\* sign_typed: match result { Ok(s) => .., Err(e) => return Err(e) }
SignFinish(t) ==
    /\ At(t, "sign_typed", "finish")
    /\ LET r == thr[t].result
       IN  thr' = [thr EXCEPT ![t] =
                     Return(@, IF r.kind = "signature"
                               THEN Signed(r.word, r.recid + 27)
                               ELSE r)]
    /\ UNCHANGED <<mode, cache, lock, inserts>>

ThreadStep(t) ==
    \/ StartCall(t)
    \/ TypeHashRead(t)
    \/ TypeHashLookup(t)
    \/ TypeHashCompute(t)
    \/ TypeHashWrite(t)
    \/ TypeHashInsert(t)
    \/ SignParseKey(t)
    \/ SignClear(t)
    \/ SignFinish(t)

Next == (\E t \in Threads : ThreadStep(t)) /\ UNCHANGED walkVars

\* The calls that reach the cache: type_hash, and the encoders through it.
HashStep(t) ==
    \/ StartCall(t)
    \/ TypeHashRead(t)
    \/ TypeHashLookup(t)
    \/ TypeHashCompute(t)
    \/ TypeHashWrite(t)
    \/ TypeHashInsert(t)

NextConc == (\E t \in Threads : HashStep(t)) /\ UNCHANGED walkVars

NoHist == [regs |-> [T \in StructTypes |-> 0], steps |-> 0]

WalkIdle ==
    /\ decl = Declared
    /\ root = "none"
    /\ builder = NewBuilder
    /\ phase = "idle"
    /\ out = <<>>
    /\ hist = NoHist

\* One thread, every call of the public interface.
Init == WalkIdle /\ InitCalls("seq")

Spec == Init /\ [][Next]_vars

\* NumThreads threads.  The scheduler runs every thread that can take a step,
\* and a thread waiting for the lock gets it once the lock stays free.  The
\* calls are finitely many: std leaves the RwLock's priority policy to the
\* platform, and under calls without end a lock that prefers readers lets
\* overlapping readers overtake a waiting writer for ever.
InitConc == WalkIdle /\ InitCalls("conc")

Progress(t) ==
    \/ TypeHashLookup(t)
    \/ TypeHashCompute(t)
    \/ TypeHashInsert(t)

\* Progress(t) waits for nothing: it can be taken exactly when t is at one of
\* its three steps.
CanProgress(t) ==
    \/ At(t, "type_hash", "lookup")
    \/ At(t, "type_hash", "compute")
    \/ At(t, "type_hash", "insert")

\* Weak fairness of every step of a call, ENABLED Progress(t) written out
\* as CanProgress(t).
Fairness ==
    \A t \in Threads :
        /\ \/ []<>(~CanProgress(t))
           \/ []<><<Progress(t) /\ UNCHANGED walkVars>>_vars
        /\ WF_vars(TypeHashRead(t) /\ UNCHANGED walkVars)
        /\ WF_vars(TypeHashWrite(t) /\ UNCHANGED walkVars)

SpecConc == InitConc /\ [][NextConc]_vars /\ Fairness

(***************************************************************************)
(* The walk, step by step: one encode_type call on a root type.  The       *)
(* members of a generated struct type are drawn when the walk first        *)
(* traverses it, so that every schema of at most MaxMembers members over   *)
(* the types reachable from the root is walked.                            *)
(***************************************************************************)
GenMemberTypes == GenStructs \cup {"String"}

\* f1, f2, ...
GenMemberName(i) == <<102, 48 + i>>

MembersUsed(d) ==
    LET gen == DOMAIN d \cap GenStructs
        RECURSIVE Sum(_)
        Sum(S) == IF S = {} THEN 0
                  ELSE LET T == CHOOSE x \in S : TRUE IN Len(d[T]) + Sum(S \ {T})
    IN  Sum(gen)

GenMemberLists(d) ==
    UNION { { [i \in 1..n |-> Member(GenMemberName(i), ts[i])] : ts \in [1..n -> GenMemberTypes] }
            : n \in 0..(MaxMembers - MembersUsed(d)) }

\* The declarations in scope once the walk is about to traverse type T.
Declaring(d, T) ==
    IF T \in DOMAIN d THEN {d}
    ELSE { [U \in DOMAIN d \cup {T} |-> IF U = T THEN ms ELSE d[U]] : ms \in GenMemberLists(d) }

\* The type a step registered, if it registered one: its frame is new.
Registered(before, after) ==
    IF Len(after.frames) > Len(before.frames) THEN {Top(after).tid} ELSE {}

Record(h, before, after) ==
    [regs  |-> [T \in StructTypes |->
                  IF T \in Registered(before, after) THEN h.regs[T] + 1 ELSE h.regs[T]],
     steps |-> h.steps + 1]

WalkOutcome(b) == IF b.fault # "none" THEN "panic" ELSE "walk"

InitWalk == WalkIdle /\ InitCalls("walk")

\* encode_type(&value) is called on a value of struct type T.
WalkBegin ==
    /\ phase = "idle"
    /\ \E T \in StructTypes :
         /\ root' = T
         /\ builder' = BeginWalk(T)
         /\ decl' \in Declaring(decl, T)
         /\ hist' = Record(hist, builder, builder')
    /\ phase' = WalkOutcome(builder')
    /\ out' = out

\* The innermost visit_members calls visitor.visit on its next member.
WalkVisit ==
    /\ phase = "walk"
    /\ builder.frames # <<>>
    /\ Top(builder).next <= Len(decl[Top(builder).tid])
    /\ builder' = WalkStep(decl, builder)
    /\ hist' = Record(hist, builder, builder')
    /\ phase' = WalkOutcome(builder')
    /\ \/ /\ Registered(builder, builder') = {}
          /\ decl' = decl
       \/ /\ Registered(builder, builder') # {}
          /\ decl' \in Declaring(decl, Top(builder').tid)
    /\ UNCHANGED <<root, out>>

\* The innermost visit_members has no member left and returns.
WalkReturn ==
    /\ phase = "walk"
    /\ builder.frames # <<>>
    /\ Top(builder).next > Len(decl[Top(builder).tid])
    /\ builder' = WalkStep(decl, builder)
    /\ hist' = Record(hist, builder, builder')
    /\ UNCHANGED <<decl, root, phase, out>>

\* encode_type, after value.add_members returned: unwrap, assert, add_type.
WalkRender ==
    /\ phase = "walk"
    /\ builder.frames = <<>>
    /\ IF Len(builder.outer) = 1 /\ builder.outer[1].name = TypeName(root)
       THEN phase' = "done" /\ out' = RenderType(builder)
       ELSE phase' = "panic" /\ out' = out
    /\ UNCHANGED <<decl, root, builder, hist>>

NextWalk == (WalkBegin \/ WalkVisit \/ WalkReturn \/ WalkRender) /\ UNCHANGED callVars

SpecWalk == InitWalk /\ [][NextWalk]_vars

(***************************************************************************)
(* What the declarations say, independently of the builder.                *)
(***************************************************************************)
StructMemberTypes(d, T) == { d[T][i].type : i \in 1..Len(d[T]) } \cap StructTypes

\* The struct types reachable from T through members, T included.
RECURSIVE ReachFrom(_, _)
ReachFrom(d, seen) ==
    LET more == UNION { StructMemberTypes(d, T) : T \in seen \cap DOMAIN d }
    IN  IF more \subseteq seen THEN seen ELSE ReachFrom(d, seen \cup more)

Reach(d, T) == ReachFrom(d, {T})

\* Byte-wise lexicographic order, stated without recursion.
LexBefore(a, b) ==
    \E k \in 1..(Len(b)) :
        /\ \A j \in 1..(k - 1) : j <= Len(a) /\ a[j] = b[j]
        /\ k - 1 <= Len(a)
        /\ (k <= Len(a) => a[k] < b[k])

\* Name(type1 name1,type2 name2,...) of T as declared.
DeclBlock(d, T) ==
    LET RECURSIVE Ms(_)
        Ms(i) == IF i > Len(d[T]) THEN <<>>
                 ELSE (IF i > 1 THEN <<44>> ELSE <<>>)
                      \o TypeName(d[T][i].type) \o <<32>> \o d[T][i].name \o Ms(i + 1)
    IN  TypeName(T) \o <<40>> \o Ms(1) \o <<41>>

\* The blocks of a set of types with distinct names, ascending by name.
BlocksByName(d, types) ==
    LET Rank(T) == 1 + Cardinality({ U \in types : LexBefore(TypeName(U), TypeName(T)) })
        RECURSIVE From(_)
        From(r) == IF r > Cardinality(types) THEN <<>>
                   ELSE LET at == { T \in types : Rank(T) = r }
                        IN  IF at = {} THEN <<>>
                            ELSE DeclBlock(d, CHOOSE T \in at : TRUE) \o From(r + 1)
    IN  From(1)

IsPrefix(p, q) == Len(p) <= Len(q) /\ SubSeq(q, 1, Len(p)) = p

Count(q, c) == Cardinality({ i \in 1..Len(q) : q[i] = c })

NamesOf(types) == { TypeName(T) : T \in types }

\* Two distinct struct types of one name are both reachable from T.
DuplicateReachable(d, T) ==
    \E U, V \in Reach(d, T) : U # V /\ TypeName(U) = TypeName(V)

(***************************************************************************)
(* C3: the string encode_type returns starts with the type block of the    *)
(* root type, and the root type never has a record in the sorted inner     *)
(* section, at any point of the walk, also when a member of the root or    *)
(* of a type referenced from it has the root's type.                       *)
(***************************************************************************)
C3_RootFirstNeverInner ==
    /\ phase # "idle" =>
          /\ TypeName(root) \notin DOMAIN builder.inner
          /\ builder.fault # "already_registered" =>
                Len(builder.outer) = 1 /\ builder.outer[1].type_id = root
    /\ phase = "done" => IsPrefix(DeclBlock(decl, root), out)

C3_Witness ==
    /\ phase = "done"
    /\ \E T \in Reach(decl, root) \ {root} : root \in StructMemberTypes(decl, T)

(***************************************************************************)
(* C4: after the root block the string holds exactly the blocks of the     *)
(* struct types reachable from the root (root excluded), in ascending      *)
(* byte-wise order of type name, with nothing between the blocks, the      *)
(* members of each block in declaration order.                             *)
(***************************************************************************)
C4_InnerSortedExact ==
    phase = "done" =>
        LET inner == Reach(decl, root) \ {root}
        IN  /\ DOMAIN builder.inner = NamesOf(inner)
            /\ out = DeclBlock(decl, root) \o BlocksByName(decl, inner)

\* Three inner types visited in an order that is not the order of their names.
C4_Witness ==
    /\ phase = "done"
    /\ Cardinality(DOMAIN builder.inner) = 3
    /\ Len(decl[root]) >= 2
    /\ LexBefore(TypeName(decl[root][2].type), TypeName(decl[root][1].type))

(***************************************************************************)
(* C5: the walk of a finite type graph ends; struct_type registers a type  *)
(* at most once, and by the end of a successful walk every reachable type  *)
(* exactly once; the number of steps is bounded by the members and types   *)
(* registered; the string has one block per distinct struct type name.     *)
(***************************************************************************)
StepBound ==
    LET reg == { T \in StructTypes : hist.regs[T] > 0 } \cap DOMAIN decl
        RECURSIVE Sum(_)
        Sum(S) == IF S = {} THEN 0
                  ELSE LET T == CHOOSE x \in S : TRUE IN Len(decl[T]) + 1 + Sum(S \ {T})
    IN  1 + Sum(reg)

C5_WalkTerminatesOnce ==
    /\ \A T \in StructTypes : hist.regs[T] <= 1
    /\ hist.steps <= StepBound
    /\ Len(builder.frames) <= Cardinality({ T \in StructTypes : hist.regs[T] > 0 })
    /\ phase = "done" =>
          /\ \A T \in StructTypes : hist.regs[T] = (IF T \in Reach(decl, root) THEN 1 ELSE 0)
          /\ Count(out, 40) = Cardinality(NamesOf(Reach(decl, root)))
          /\ Count(out, 41) = Cardinality(Reach(decl, root))

\* A mutually recursive pair below the root, walked to the end.
C5_Witness ==
    /\ phase = "done"
    /\ \E T, U \in Reach(decl, root) \ {root} :
          /\ T # U
          /\ U \in StructMemberTypes(decl, T)
          /\ T \in StructMemberTypes(decl, U)

(***************************************************************************)
(* C6: when two distinct struct types of one type name are reachable from  *)
(* the root, encode_type does not return a string: the walk ends in the    *)
(* duplicate-type-name panic, whatever the order of the members.           *)
(***************************************************************************)
C6_DuplicateNameRejected ==
    /\ phase = "done" => ~DuplicateReachable(decl, root)
    /\ phase = "panic" => builder.fault = "duplicate_name"
    /\ phase # "done" => out = <<>>

\* The second type of the name is met below the root, after the first.
C6_Witness ==
    /\ phase = "panic"
    /\ builder.fault = "duplicate_name"
    /\ Len(builder.frames) >= 2
    /\ \E T \in StructTypes : hist.regs[T] = 1 /\ T # root
          /\ \E U \in StructTypes \ {T} : TypeName(U) = TypeName(T) /\ hist.regs[U] = 0

(***************************************************************************)
(* What the calls are to return, from the values alone.                    *)
(***************************************************************************)
ExpectedTypeHash(T) == Keccak(TypeStrings[T].str)

\* type_hash, then one word per member: the member's own encoding, or for a
\* struct member keccak of its expected encoding.
RECURSIVE ExpectedData(_)
ExpectedData(v) ==
    <<ExpectedTypeHash(v.type)>> \o
    [i \in 1..Len(v.fields) |->
        IF v.fields[i].type \in LeafTypes
        THEN LeafEncode(v.fields[i])
        ELSE Keccak(Flatten(ExpectedData(v.fields[i])))]

ExpectedHashStruct(v) == Keccak(Flatten(ExpectedData(v)))

Returned(t, op) == thr[t].status = "returned" /\ thr[t].op = op

(***************************************************************************)
(* C1: hash_struct(v) is keccak(encode_data(v)), and encode_data(v) is     *)
(* type_hash(v) followed by exactly one 32-byte word per member in         *)
(* declaration order, for a struct member its hash_struct and never its    *)
(* raw encode_data; so encode_data(v) has 32 * (1 + members) bytes.        *)
(***************************************************************************)
C1_HashStructOfEncodeData ==
    \A t \in Threads :
        /\ Returned(t, "encode_data") =>
              /\ thr[t].result.kind = "data"
              /\ thr[t].result.words = ExpectedData(thr[t].arg)
              /\ 32 * Len(thr[t].result.words) = 32 * (1 + Len(thr[t].arg.fields))
        /\ Returned(t, "new") =>
              thr[t].result.word = ExpectedHashStruct(thr[t].arg)

\* encode_data has returned for a value with struct members.
C1_Witness ==
    /\ Returned(1, "encode_data")
    /\ thr[1].arg = MailValue
    /\ thr[1].enc = 3

(***************************************************************************)
(* C2: encode(d, m) is 66 bytes: 0x19, 0x01, the 32 bytes of d, the 32     *)
(* bytes of hash_struct(m); sign_hash(d, m) is keccak of them; and         *)
(* DomainSeparator::new(x) holds hash_struct(x).                           *)
(***************************************************************************)
C2_EncodeLayout ==
    \A t \in Threads :
        /\ Returned(t, "encode") =>
              /\ thr[t].result.runs =
                    << Run(2, <<25, 1>>), Run(32, thr[t].dom),
                       Run(32, ExpectedHashStruct(thr[t].arg)) >>
              /\ ByteLen(thr[t].result.runs) = 66
        /\ Returned(t, "sign_hash") =>
              thr[t].result.word =
                  Keccak(<<25, 1>> \o thr[t].dom \o ExpectedHashStruct(thr[t].arg))
        /\ Returned(t, "new") => thr[t].dom = ExpectedHashStruct(thr[t].arg)

\* sign_hash has returned for the mail under the separator of the test's domain.
C2_Witness ==
    /\ Returned(1, "sign_hash")
    /\ thr[1].arg = MailValue
    /\ thr[1].dom = ExpectedHashStruct(DomainValue)

(***************************************************************************)
(* C7: every type_hash call on a value of struct type T returns keccak of  *)
(* encode_type of T, whichever instance it is given, and whether it was    *)
(* served from the cache, computed on a miss, or computed in a race with   *)
(* another caller.                                                         *)
(***************************************************************************)
C7_TypeHashPerType ==
    \A t \in Threads :
        /\ \A i \in 1..Len(thr[t].th) :
              /\ TypeStrings[thr[t].th[i].type].ok
              /\ thr[t].th[i].type = thr[t].th[i].inst.type
              /\ thr[t].th[i].value = ExpectedTypeHash(thr[t].th[i].type)
        /\ Returned(t, "type_hash") =>
              thr[t].result = Hash(ExpectedTypeHash(thr[t].arg.type))

\* Two callers have computed the hash of one type in a race, and both have
\* returned it.
C7_Witness ==
    \E t, u \in Threads :
        /\ t # u
        /\ Returned(t, "type_hash") /\ Returned(u, "type_hash")
        /\ thr[t].th[1].how = "miss"
        /\ thr[u].th[1].how = "miss"
        /\ thr[t].th[1].type = thr[u].th[1].type

(***************************************************************************)
(* C8: when encode_data (or a caller of it) fails with the duplicate type  *)
(* name panic, it does so in the walk of the root type: before any member  *)
(* of the root value is encoded and before the call inserted into CACHE.   *)
(***************************************************************************)
C8_SchemaErrorBeforeEncoding ==
    \A t \in Threads :
        (thr[t].status = "panicked" /\ thr[t].fault = "duplicate_name") =>
            /\ thr[t].enc = 0
            /\ thr[t].ins = {}

(***************************************************************************)
(* C9: when sign_typed returns, with a signature or with the error of a    *)
(* rejected scalar (zero, or not below the curve order), the copy of the   *)
(* scalar made for signing has been erased; the error carries no           *)
(* signature and no recovery id.                                           *)
(***************************************************************************)
C9_KeyErasedOnEveryExit ==
    \A t \in Threads :
        Returned(t, "sign_typed") =>
            /\ thr[t].secret = "erased"
            /\ thr[t].key \in {"zero", "overflow"} =>
                  thr[t].result = Failed("InvalidSecretKey")
            /\ thr[t].key = "valid" =>
                  /\ thr[t].result.kind = "signature"
                  /\ thr[t].result.recid \in 27..30

\* sign_typed has returned the error for the zero scalar.
C9_Witness ==
    /\ Returned(1, "sign_typed")
    /\ thr[1].key = "zero"
    /\ thr[1].result.kind = "InvalidSecretKey"

(***************************************************************************)
(* C10: no call blocks for ever.  A thread never asks for the write lock   *)
(* while it holds a read guard; a guard is held only between CACHE.read()  *)
(* and the end of the lookup, or between CACHE.write() and the insert,     *)
(* never while encode_type runs or members are hashed; some thread in a    *)
(* call can always step; and under fair scheduling every call on a valid   *)
(* type graph returns.                                                     *)
(***************************************************************************)
Blocked(t) ==
    \/ At(t, "type_hash", "read") /\ lock.writer # {}
    \/ At(t, "type_hash", "write") /\ (lock.writer # {} \/ lock.readers # {})

LockDiscipline ==
    /\ Cardinality(lock.writer) <= 1
    /\ lock.writer # {} => lock.readers = {}
    /\ \A t \in Threads :
          /\ t \in lock.readers => At(t, "type_hash", "lookup")
          /\ t \in lock.writer => At(t, "type_hash", "insert")
          /\ At(t, "type_hash", "write") => t \notin lock.readers

NoDeadlock ==
    (\E t \in Threads : Running(t)) => (\E t \in Threads : Running(t) /\ ~Blocked(t))

\* The declared types whose graph has no two types of one name.
ValidTypes ==
    {T \in DeclaredStructs : \A U \in Reach(Declared, T) : TypeStrings[U].ok}

ValidGraph(v) == v.type \in ValidTypes

C10_NoCallBlocks ==
    /\ [](LockDiscipline /\ NoDeadlock)
    /\ \A t \in Threads :
          (Running(t) /\ ValidGraph(thr[t].arg)) ~> (thr[t].status = "returned")

\* A thread holds the write guard while another, hashing a struct member,
\* waits at CACHE.read().
C10_Witness ==
    \E t, u \in Threads :
        /\ t \in lock.writer
        /\ At(u, "type_hash", "read")
        /\ Len(thr[u].frames) = 3

(***************************************************************************)
(* C11: when two distinct types of one type name appear in a walk, also an *)
(* atomic or dynamic type and a struct type of its name, encode_type does  *)
(* not return a string, whichever of the two the walk visits first.        *)
(***************************************************************************)
\* The types that appear in the walk from T: the struct types reachable from
\* T and the types of their members.
AppearingTypes(d, T) ==
    Reach(d, T) \cup
    UNION { { d[U][i].type : i \in 1..Len(d[U]) } : U \in Reach(d, T) \cap DOMAIN d }

NameCollision(d, T) ==
    \E U, V \in AppearingTypes(d, T) : U # V /\ TypeName(U) = TypeName(V)

C11_AnyNameCollisionRejected ==
    phase = "done" => ~NameCollision(decl, root)

(***************************************************************************)
(* C12: over any interleaving of concurrent type_hash callers, at most one *)
(* insert into CACHE is performed for a struct type.                       *)
(***************************************************************************)
C12_AtMostOneInsert ==
    \A T \in StructTypes : inserts[T] <= 1

(***************************************************************************)
(* C12, amended: a caller that finds the type cached does not insert, so   *)
(* a type is inserted at most once by each thread, by the callers that     *)
(* missed before an insert for it landed; a type is cached exactly when it *)
(* has been inserted, and every insert for it wrote the same value.        *)
(***************************************************************************)
C12_OneInsertPerRacingCaller ==
    \A T \in StructTypes :
        /\ inserts[T] <= NumThreads
        /\ inserts[T] >= 1 <=> T \in DOMAIN cache
        /\ inserts[T] >= 1 => cache[T] = ExpectedTypeHash(T)

\* Every thread has inserted the same type, and no call is left running.
C12_Witness ==
    \E T \in StructTypes :
        /\ inserts[T] = NumThreads
        /\ \A t \in Threads : thr[t].status = "returned" /\ T \in thr[t].ins

(***************************************************************************)
(* C13: in every reachable state of CACHE, under any interleaving of       *)
(* calls, every entry's value is keccak of the canonical type string of    *)
(* its type; and in every step an entry that is present stays present      *)
(* with the value it has, so the set of cached types only grows.           *)
(***************************************************************************)
\* The root's block, then the blocks of the struct types it reaches,
\* ascending by name, as the declarations give them.
CanonicalTypeString(T) ==
    DeclBlock(Declared, T) \o BlocksByName(Declared, Reach(Declared, T) \ {T})

EntriesKept ==
    \A T \in DOMAIN cache : T \in DOMAIN cache' /\ cache'[T] = cache[T]

EntriesCanonical ==
    \A T \in DOMAIN cache : cache[T] = Keccak(CanonicalTypeString(T))

C13_CacheOnlyGrows ==
    /\ []EntriesCanonical
    /\ [][EntriesKept]_vars

\* Several types are cached, and a second insert for one of them has landed
\* on its entry.
C13_Witness ==
    /\ Cardinality(DOMAIN cache) >= 3
    /\ \E T \in DOMAIN cache : inserts[T] >= 2

(***************************************************************************)
(* C14: a type_hash call that fails with a schema error fails in           *)
(* encode_type, where it holds neither guard of CACHE, and its type is not *)
(* inserted; so the lock is never poisoned and never held by a thread that *)
(* is not inside type_hash, no call fails on a poisoned lock, and a        *)
(* type_hash call on a valid type that is running once a call has failed   *)
(* returns, with the hash of its type.                                     *)
(***************************************************************************)
SchemaFaults == {"duplicate_name", "already_registered"}

HasFailed(t) == thr[t].status = "panicked"

\* The types reachable from the value whose walk panics.
FailingTypes(v) == { T \in Reach(Declared, v.type) : ~TypeStrings[T].ok }

FailsUnlocked ==
    /\ ~lock.poisoned
    /\ \A t \in lock.readers \cup lock.writer : Running(t)
    /\ \A t \in Threads :
          /\ At(t, "type_hash", "compute") => t \notin lock.readers \cup lock.writer
          /\ HasFailed(t) =>
                /\ thr[t].fault \in SchemaFaults
                /\ t \notin lock.readers \cup lock.writer
                /\ FailingTypes(thr[t].arg) # {}
                /\ FailingTypes(thr[t].arg) \cap (DOMAIN cache \cup thr[t].ins) = {}

C14_FailureLeavesLockFree ==
    /\ []FailsUnlocked
    /\ \A t \in Threads :
          (/\ \E u \in Threads : HasFailed(u)
           /\ Running(t)
           /\ thr[t].op = "type_hash"
           /\ ValidGraph(thr[t].arg))
          ~> (/\ Returned(t, "type_hash")
              /\ thr[t].result = Hash(Keccak(CanonicalTypeString(thr[t].arg.type))))

\* A call has failed on a schema error while another thread, in a later
\* call of its own on a valid type, is about to ask for the read lock.
C14_Witness ==
    \E t, u \in Threads :
        /\ t # u
        /\ HasFailed(u)
        /\ thr[u].fault = "duplicate_name"
        /\ At(t, "type_hash", "read")
        /\ thr[t].op = "type_hash"
        /\ ValidGraph(thr[t].arg)
        /\ thr[t].calls >= 2

====
